---- MODULE Spec2Model ----
(***************************************************************************)
(* Model of the real-time market-data client of WR Trading Pro             *)
(* (wr-trading-pro/lib/websocket/client.ts, class WebSocketClient).        *)
(*                                                                         *)
(* The client is single-threaded: every public method and every handler    *)
(* registered on a Socket.IO socket runs to completion, so each of them is *)
(* one action.  The environment is the Socket.IO library and the backend:  *)
(* it fires 'connect', 'connect_error' and 'disconnect' on every socket    *)
(* the client has created and not closed (the options passed to io() have  *)
(* reconnection: true, so a socket that failed or lost its connection      *)
(* keeps retrying by itself), and it fires the timers the client armed.    *)
(* The backend answers the pull queries on the socket they were sent on,   *)
(* at any time and any number of times.                                    *)
(***************************************************************************)
EXTENDS Integers, Sequences, FiniteSets, TLC

\* ---------------------------------------------------------------- bounds
MaxSockets == 2      \* transports created by io() in one behaviour
MaxTimers == 2       \* reconnection timers pending at the same time
MaxAttempts == 2     \* consecutive failures explored together with subscriptions
MaxQueries == 2      \* pull queries issued in one behaviour

\* ------------------------------------------------------ program constants
maxReconnectAttempts == 10
reconnectDelay == 5000          \* ms
\* reconnectDelayMultiplier = 1.5, as a fraction
MultiplierNum == 3
MultiplierDen == 2

\* ------------------------------------------------------------ input sets
Symbols == {"A", "B"}
Callbacks == {"cb1", "cb2"}
\* the callback multiSymbolManager registers with wsClient.subscribe
ManagerCallback == "manager"
SocketIds == 1..MaxSockets
\* close reasons Socket.IO reports to the 'disconnect' handler for a close
\* that the client did not ask for ('transport error' is handled exactly as
\* 'ping timeout' and is not listed apart)
TransportReasons ==
  {"transport close", "ping timeout", "io server disconnect"}
Timeframes == {"M5", "H1"}
\* count = 100, the default of getCandles and of getCandlesWithCache
DefaultCount == 100
Counts == {DefaultCount, 2 * DefaultCount}
QueryIds == 1..MaxQueries
\* the events that answer the pull queries
ResponseEvents == {"symbols", "candles", "order_book", "account_info"}

VARIABLES
  socket,               \* this.socket: 0 (null) or the id of a socket
  sockStatus,           \* per created socket: "none", "opening", "open", "closed"
  subscribers,          \* this.subscribers: symbol -> set of callbacks
  isConnecting,         \* this.isConnecting
  isConnected,          \* this.isConnected
  pendingSubscriptions, \* this.pendingSubscriptions
  reconnectAttempts,    \* this.reconnectAttempts
  reconnectTimer,       \* this.reconnectTimer: "null", or the handle of a timer
                        \* that is still "armed" or has "fired"
  timers,               \* number of setTimeout callbacks armed and not yet
                        \* fired or cleared (the one the handle names included)
  pingInterval,         \* this.pingInterval is set (the interval is running)
  connectionPromise,    \* this.connectionPromise: 0 (null) or a promise id
  connectionResolve,    \* this.connectionResolve: 0 (null) or the promise it settles
  emittedSubs,          \* symbols with a 'subscribe' emitted on this.socket since
                        \* its last close and no 'unsubscribe' after it
  closedWith,           \* symbols that had callbacks when a transport last
                        \* closed and have kept them since; empty after an open
  maxErrors,            \* MAX_RECONNECT_ATTEMPTS errors emitted since the attempt
                        \* counter was last reset, counted up to 2
  queries,              \* the pull queries issued, in order: of each its
                        \* arguments, its promise, its timeout and the
                        \* listeners it has registered
  eventListeners,       \* this.eventListeners.get('candles'): the callbacks
                        \* registered with on('candles', cb), in insertion order
  socketListeners,      \* the registrations on() made with socket.on('candles',
                        \* cb), in order: the callback, the socket, and the
                        \* number of queries issued before it
  candlesCache,         \* candlesCache: key -> the query whose candles it holds
  candlesPromises,      \* candlesPromises: key -> the query in flight for it
  cacheTimers,          \* the keys of the pending setTimeout(() =>
                        \* candlesCache.delete(key), 30000), in arming order
  subscriptions,        \* multiSymbolManager.subscriptions: symbol -> set of
                        \* the callbacks its consumers passed
  lastOp,               \* the operation or handler that ran last
  out                   \* what it emitted, in order

vars ==
  <<socket, sockStatus, subscribers, isConnecting, isConnected,
    pendingSubscriptions, reconnectAttempts, reconnectTimer, timers,
    pingInterval, connectionPromise, connectionResolve, emittedSubs,
    closedWith, maxErrors, queries, eventListeners, socketListeners,
    candlesCache, candlesPromises, cacheTimers, subscriptions, lastOp, out>>

\* the fields of the client that its connection and its subscriptions use
clientVars ==
  <<socket, sockStatus, subscribers, isConnecting, isConnected,
    pendingSubscriptions, reconnectAttempts, reconnectTimer, timers,
    pingInterval, connectionPromise, connectionResolve, emittedSubs,
    closedWith, maxErrors>>
\* the listener registry of on() and off()
listenerVars == <<eventListeners, socketListeners>>
\* the state of the candle cache of the market-data hook
cacheVars == <<candlesCache, candlesPromises, cacheTimers>>
\* the state of multiSymbolManager
managerVars == <<subscriptions>>
\* what the connection and the subscriptions never touch
appVars == <<queries, listenerVars, cacheVars, managerVars>>

\* ---------------------------------------------------------------- helpers
EmptyMap == [x \in {} |-> {}]

\* map with key set to value
Put(map, key, value) ==
  [k \in DOMAIN map \cup {key} |-> IF k = key THEN value ELSE map[k]]

\* name of the operation, the socket or promise it concerns, its symbol, and
\* its argument or result
Op(name, s, sym, arg) == [op |-> name, sock |-> s, sym |-> sym, arg |-> arg]

\* an outbound socket.emit(msg, {symbol}) on socket s
Send(msg, s, sym) == [kind |-> "send", name |-> msg, sock |-> s, sym |-> sym]
\* this.emit(event, data): delivery to the listeners registered with on()
Event(name, code) == [kind |-> "event", name |-> name, sock |-> 0, sym |-> code]
\* connectionResolve(value)
Resolve(p, value) == [kind |-> "resolve", name |-> value, sock |-> p, sym |-> ""]
\* setTimeout(callback, delay), the delay in units of 1/DelayScale ms
SetTimeout(delay) == [kind |-> "timer", name |-> "setTimeout", sock |-> delay, sym |-> ""]

RECURSIVE SetToSeq(_)
SetToSeq(S) ==
  IF S = {} THEN <<>>
  ELSE LET x == CHOOSE y \in S : TRUE IN <<x>> \o SetToSeq(S \ {x})

NumSockets == Cardinality({s \in SocketIds : sockStatus[s] # "none"})

\* sockets whose handlers can still be called by Socket.IO
LiveSockets == {s \in SocketIds : sockStatus[s] \in {"opening", "open"}}

\* clearTimers(): the reconnection timer the handle names is cancelled;
\* clearTimeout of a timer that has fired does nothing
ClearedTimers(ts, handle) == IF handle = "armed" THEN ts - 1 ELSE ts

\* the record of a query, before its fields are set
NoQuery ==
  [kind |-> "none", sym |-> "", tf |-> "", future |-> "none", value |-> "",
   vsym |-> "", vtf |-> "", timer |-> FALSE, bus |-> FALSE, on |-> FALSE,
   once |-> FALSE, sock |-> 0, count |-> 0, from |-> 0]

Init ==
  /\ socket = 0
  /\ sockStatus = [s \in SocketIds |-> "none"]
  /\ subscribers = EmptyMap
  /\ isConnecting = FALSE
  /\ isConnected = FALSE
  /\ pendingSubscriptions = {}
  /\ reconnectAttempts = 0
  /\ reconnectTimer = "null"
  /\ timers = 0
  /\ pingInterval = FALSE
  /\ connectionPromise = 0
  /\ connectionResolve = 0
  /\ emittedSubs = {}
  /\ closedWith = {}
  /\ maxErrors = 0
  /\ queries = <<>>
  /\ eventListeners = <<>>
  /\ socketListeners = <<>>
  /\ candlesCache = EmptyMap
  /\ candlesPromises = EmptyMap
  /\ cacheTimers = <<>>
  /\ subscriptions = EmptyMap
  /\ lastOp = Op("init", 0, "", "")
  /\ out = <<>>

\* ------------------------------------------------------------- connect()
\* connect() without its first check
AlreadyConnectedUnchecked == FALSE

AlreadyConnected == isConnected

\* connect() without its second check
AlreadyConnectingUnchecked == FALSE

AlreadyConnecting == isConnecting /\ connectionPromise # 0

\* the body of connect(); the caller is the application or the timer.
\* io() is called with the configured URL and returns a socket (it opens the
\* connection asynchronously), so the catch branch is not taken.  A promise
\* has the id of the socket created with it; it is pending exactly while
\* connectionResolve holds it.  lastConnectionError and connectionStartTime
\* are only reported, never tested, and are left out.
DoConnect(caller) ==
  IF AlreadyConnected THEN
    /\ lastOp' = Op(caller, 0, "", "true")
    /\ UNCHANGED <<socket, sockStatus, isConnecting, connectionPromise,
                   connectionResolve, emittedSubs>>
  ELSE IF AlreadyConnecting THEN
    /\ lastOp' = Op(caller, connectionPromise, "", "pending")
    /\ UNCHANGED <<socket, sockStatus, isConnecting, connectionPromise,
                   connectionResolve, emittedSubs>>
  ELSE
    /\ NumSockets < MaxSockets
    /\ LET s == NumSockets + 1 IN
         /\ isConnecting' = TRUE
         /\ connectionPromise' = s
         /\ connectionResolve' = s
         /\ socket' = s
         /\ emittedSubs' = {}
         /\ sockStatus' = [sockStatus EXCEPT ![s] = "opening"]
         /\ lastOp' = Op(caller, s, "", "new")

Connect ==
  /\ UNCHANGED appVars
  /\ DoConnect("connect")
  /\ out' = <<>>
  /\ UNCHANGED <<subscribers, isConnected, pendingSubscriptions,
                 reconnectAttempts, reconnectTimer, timers, pingInterval,
                 closedWith, maxErrors>>

\* the callback armed by scheduleReconnection; named: the timer that fires
\* is the one this.reconnectTimer names, and not one armed earlier whose
\* handle was overwritten
ReconnectTimerFires(named) ==
  /\ UNCHANGED appVars
  /\ IF named THEN reconnectTimer = "armed"
     ELSE timers > (IF reconnectTimer = "armed" THEN 1 ELSE 0)
  /\ timers' = timers - 1
  /\ reconnectTimer' = IF named THEN "fired" ELSE reconnectTimer
  /\ DoConnect("timer")
  /\ out' = <<>>
  /\ UNCHANGED <<subscribers, isConnected, pendingSubscriptions,
                 reconnectAttempts, pingInterval, closedWith, maxErrors>>

\* ------------------------------------------------ scheduleReconnection()
\* the state of the retry bookkeeping after scheduleReconnection() ran with
\* attempt counter att and pending timers ts
\* Math.pow(b, e) for the integers b and e >= 0
Pow(b, e) == b^e

\* the delays are multiples of 1/2^(maxReconnectAttempts-1) ms: they are
\* kept as integers in that unit
DelayScale == Pow(MultiplierDen, maxReconnectAttempts - 1)

\* reconnectDelay * Math.pow(reconnectDelayMultiplier, attempts - 1), with
\* attempts the counter after its increment
ReconnectionDelayFromAttempt(attempts) ==
  ((reconnectDelay * DelayScale) \div Pow(MultiplierDen, attempts))
    * Pow(MultiplierNum, attempts)
ReconnectionDelay(attempts) ==
  ((reconnectDelay * DelayScale) \div Pow(MultiplierDen, attempts - 1))
    * Pow(MultiplierNum, attempts - 1)

ScheduleReconnectionPastCap(att, handle, ts) ==
  IF att > maxReconnectAttempts THEN
    [attempts |-> att, handle |-> handle, timers |-> ts,
     events |-> <<Event("error", "MAX_RECONNECT_ATTEMPTS")>>]
  ELSE
    [attempts |-> att + 1, handle |-> "armed", timers |-> ts + 1,
     events |-> <<SetTimeout(ReconnectionDelay(att + 1))>>]
ScheduleReconnection(att, handle, ts) ==
  IF att >= maxReconnectAttempts THEN
    [attempts |-> att, handle |-> handle, timers |-> ts,
     events |-> <<Event("error", "MAX_RECONNECT_ATTEMPTS")>>]
  ELSE
    [attempts |-> att + 1, handle |-> "armed", timers |-> ts + 1,
     events |-> <<SetTimeout(ReconnectionDelay(att + 1))>>]

\* the count of max-attempts errors after the emissions events
CountMaxErrors(n, events) ==
  IF \E i \in DOMAIN events : events[i] = Event("error", "MAX_RECONNECT_ATTEMPTS")
  THEN (IF n < 2 THEN n + 1 ELSE 2) ELSE n

\* bounds of the exploration: the attempt counter is followed up to limit,
\* and at most MaxTimers timers are pending (limit timers when the counter
\* is followed further than that)
TimerAvailable(att, ts, limit) ==
  /\ att < maxReconnectAttempts =>
       ts < (IF limit > MaxTimers THEN limit ELSE MaxTimers)
  /\ att < limit \/ att >= maxReconnectAttempts

\* --------------------------------------------------------- sendSubscribe
\* sendSubscribe queues the symbol instead of emitting it
Queues(sock, connected) == sock = 0 \/ ~connected

\* ------------------------------------------- socket.on('connect', ...)
\* the symbols the open handler emits a 'subscribe' for: isConnected was
\* set just before, so sendSubscribe emits unless this.socket is null
FlushEmits == IF Queues(socket, TRUE) THEN {} ELSE pendingSubscriptions

OnConnect(s) ==
  /\ UNCHANGED appVars
  /\ sockStatus[s] = "opening"
  /\ sockStatus' = [sockStatus EXCEPT ![s] = "open"]
  /\ isConnected' = TRUE
  /\ isConnecting' = FALSE
  /\ reconnectAttempts' = 0
  \* startPingInterval(): clearTimers() then setInterval
  /\ timers' = ClearedTimers(timers, reconnectTimer)
  /\ reconnectTimer' = "null"
  /\ pingInterval' = TRUE
  \* pendingSubscriptions.forEach(sendSubscribe); pendingSubscriptions.clear()
  /\ pendingSubscriptions' = {}
  /\ emittedSubs' = emittedSubs \cup FlushEmits
  /\ connectionResolve' = 0
  /\ out' =
       [i \in 1..Cardinality(FlushEmits) |->
          Send("subscribe", socket, SetToSeq(FlushEmits)[i])]
       \o <<Event("connected", "")>>
       \o (IF connectionResolve # 0
           THEN <<Resolve(connectionResolve, "true")>> ELSE <<>>)
  /\ closedWith' = {}
  /\ maxErrors' = 0
  /\ lastOp' = Op("open", s, "", "")
  /\ UNCHANGED <<socket, subscribers, connectionPromise>>

\* ----------------------------------------- socket.on('disconnect', ...)
SchedulesOnClose(reason) ==
  reason # "io client disconnect" /\ reason # "transport close"

\* a loop that moves the symbols instead of copying them
RequeuedByMoving ==
  [pending |-> pendingSubscriptions \cup DOMAIN subscribers,
   subscribers |-> EmptyMap]

\* subscribers.forEach((_, symbol) => pendingSubscriptions.add(symbol)): the
\* two collections after the loop
Requeued ==
  [pending |-> pendingSubscriptions \cup DOMAIN subscribers,
   subscribers |-> subscribers]

\* Socket.IO reconnects by itself after a close unless the server or the
\* client asked for it
StatusAfterClose(reason) ==
  IF reason \in {"io server disconnect", "io client disconnect"}
  THEN "closed" ELSE "opening"

OnDisconnect(s, reason, limit) ==
  /\ UNCHANGED appVars
  /\ sockStatus[s] = "open"
  /\ LET ts == ClearedTimers(timers, reconnectTimer)
         r == IF SchedulesOnClose(reason)
              THEN ScheduleReconnection(reconnectAttempts, "null", ts)
              ELSE [attempts |-> reconnectAttempts, handle |-> "null",
                    timers |-> ts, events |-> <<>>]
     IN
       /\ SchedulesOnClose(reason) => TimerAvailable(reconnectAttempts, ts, limit)
       /\ isConnected' = FALSE
       /\ pingInterval' = FALSE
       /\ pendingSubscriptions' = Requeued.pending
       /\ subscribers' = Requeued.subscribers
       /\ reconnectAttempts' = r.attempts
       /\ reconnectTimer' = r.handle
       /\ timers' = r.timers
       /\ out' = <<Event("disconnected", reason)>> \o r.events
       /\ maxErrors' = CountMaxErrors(maxErrors, r.events)
  /\ sockStatus' = [sockStatus EXCEPT ![s] = StatusAfterClose(reason)]
  /\ emittedSubs' = IF s = socket THEN {} ELSE emittedSubs
  /\ closedWith' = DOMAIN subscribers
  /\ lastOp' = Op("close", s, "", reason)
  /\ UNCHANGED <<socket, isConnecting, connectionPromise,
                 connectionResolve>>

\* -------------------------------------- socket.on('connect_error', ...)
\* retries: Socket.IO keeps retrying this socket (reconnection: true) or has
\* used up its own reconnectionAttempts and gives the socket up.  The handler
\* does not call clearTimers(): a timer armed earlier stays pending when
\* scheduleReconnection overwrites this.reconnectTimer.
OnConnectError(s, retries, limit) ==
  /\ UNCHANGED appVars
  /\ sockStatus[s] = "opening"
  /\ TimerAvailable(reconnectAttempts, timers, limit)
  /\ LET r == ScheduleReconnection(reconnectAttempts, reconnectTimer, timers)
     IN
       /\ isConnecting' = FALSE
       /\ isConnected' = FALSE
       /\ reconnectAttempts' = r.attempts
       /\ reconnectTimer' = r.handle
       /\ timers' = r.timers
       /\ out' =
            <<Event("error", "CONNECT_ERROR")>> \o r.events
            \o (IF connectionResolve # 0
                THEN <<Resolve(connectionResolve, "false")>> ELSE <<>>)
       /\ maxErrors' = CountMaxErrors(maxErrors, r.events)
  /\ connectionResolve' = 0
  /\ sockStatus' = [sockStatus EXCEPT ![s] = IF retries THEN "opening" ELSE "closed"]
  /\ lastOp' = Op("error", s, "", "")
  /\ UNCHANGED <<socket, subscribers, pendingSubscriptions, pingInterval,
                 connectionPromise, emittedSubs, closedWith>>

\* ------------------------------------------------------------ subscribe()
DoSubscribe(caller, sym, cb) ==
  /\ IF sym \notin DOMAIN subscribers THEN
       IF Queues(socket, isConnected) THEN
         /\ pendingSubscriptions' = pendingSubscriptions \cup {sym}
         /\ out' = <<>>
         /\ UNCHANGED emittedSubs
       ELSE
         /\ out' = <<Send("subscribe", socket, sym)>>
         /\ emittedSubs' = emittedSubs \cup {sym}
         /\ UNCHANGED pendingSubscriptions
     ELSE
       /\ out' = <<>>
       /\ UNCHANGED <<pendingSubscriptions, emittedSubs>>
  /\ subscribers' =
       [x \in DOMAIN subscribers \cup {sym} |->
          IF x = sym
          THEN (IF sym \in DOMAIN subscribers THEN subscribers[sym] ELSE {})
               \cup {cb}
          ELSE subscribers[x]]
  /\ lastOp' = Op(caller, 0, sym, "")
  /\ UNCHANGED <<socket, sockStatus, isConnecting, isConnected,
                 reconnectAttempts, reconnectTimer, timers, pingInterval,
                 connectionPromise, connectionResolve, closedWith,
                 maxErrors>>

\* subscribe(sym, cb) called by a consumer directly
Subscribe(sym, cb) ==
  /\ UNCHANGED appVars
  /\ DoSubscribe("subscribe", sym, cb)

\* ---------------------------------------------------------- unsubscribe()
\* the callbacks of sym after unsubscribe(sym, cb); cb = "" is the call
\* without a callback
RemainingCallbacksNone(sym, cb) == {}
RemainingCallbacks(sym, cb) ==
  IF cb = "" THEN {} ELSE subscribers[sym] \ {cb}

DoUnsubscribe(caller, sym, cb) ==
  /\ lastOp' = Op(caller, 0, sym, IF cb = "" THEN "all" ELSE "one")
  /\ IF sym \notin DOMAIN subscribers THEN
       /\ out' = <<>>
       /\ UNCHANGED <<subscribers, emittedSubs>>
     ELSE IF RemainingCallbacks(sym, cb) # {} THEN
       /\ subscribers' = [subscribers EXCEPT ![sym] = RemainingCallbacks(sym, cb)]
       /\ out' = <<>>
       /\ UNCHANGED emittedSubs
     ELSE
       /\ subscribers' = [x \in DOMAIN subscribers \ {sym} |-> subscribers[x]]
       \* sendUnsubscribe
       /\ IF Queues(socket, isConnected) THEN
            /\ out' = <<>>
            /\ UNCHANGED emittedSubs
          ELSE
            /\ out' = <<Send("unsubscribe", socket, sym)>>
            /\ emittedSubs' = emittedSubs \ {sym}
  /\ closedWith' = closedWith \cap DOMAIN subscribers'
  /\ UNCHANGED <<socket, sockStatus, isConnecting, isConnected,
                 pendingSubscriptions, reconnectAttempts, reconnectTimer,
                 timers, pingInterval, connectionPromise, connectionResolve,
                 maxErrors>>

\* unsubscribe(sym, cb) called by a consumer directly
Unsubscribe(sym, cb) ==
  /\ UNCHANGED appVars
  /\ DoUnsubscribe("unsubscribe", sym, cb)

\* ----------------------------------------------------------- disconnect()
\* socket.disconnect() calls the 'disconnect' handler synchronously, with
\* reason 'io client disconnect', when the socket is connected
Disconnect ==
  /\ UNCHANGED appVars
  /\ timers' = ClearedTimers(timers, reconnectTimer)
  /\ reconnectTimer' = "null"
  /\ pingInterval' = FALSE
  /\ IF socket # 0 THEN
       /\ sockStatus' = [sockStatus EXCEPT ![socket] = "closed"]
       /\ out' = IF sockStatus[socket] = "open"
                 THEN <<Event("disconnected", "io client disconnect")>>
                 ELSE <<>>
     ELSE
       /\ out' = <<>>
       /\ UNCHANGED sockStatus
  /\ emittedSubs' = {}
  /\ socket' = 0
  /\ isConnected' = FALSE
  /\ subscribers' = EmptyMap
  /\ pendingSubscriptions' = {}
  /\ reconnectAttempts' = 0
  /\ closedWith' = {}
  /\ maxErrors' = 0
  /\ lastOp' = Op("disconnect", socket, "", "")
  /\ UNCHANGED <<isConnecting, connectionPromise, connectionResolve>>

\* ------------------------------------------- the setInterval callback
PingIntervalFires ==
  /\ UNCHANGED appVars
  /\ pingInterval
  /\ out' = IF isConnected /\ socket # 0
            THEN <<Send("ping", socket, "")>> ELSE <<>>
  /\ lastOp' = Op("ping", 0, "", "")
  /\ UNCHANGED <<socket, sockStatus, subscribers, isConnecting, isConnected,
                 pendingSubscriptions, reconnectAttempts, reconnectTimer,
                 timers, pingInterval, connectionPromise, connectionResolve,
                 emittedSubs, closedWith, maxErrors>>

Next ==
  \/ Connect
  \/ \E named \in BOOLEAN : ReconnectTimerFires(named)
  \/ \E s \in SocketIds : OnConnect(s)
  \/ \E s \in SocketIds, reason \in TransportReasons :
       OnDisconnect(s, reason, MaxAttempts)
  \/ \E s \in SocketIds, retries \in BOOLEAN :
       OnConnectError(s, retries, MaxAttempts)
  \/ \E sym \in Symbols, cb \in Callbacks : Subscribe(sym, cb)
  \/ \E sym \in Symbols, cb \in Callbacks \cup {""} : Unsubscribe(sym, cb)
  \/ Disconnect
  \/ PingIntervalFires

Spec == Init /\ [][Next]_vars

\* the connection manager alone, with the attempt counter followed up to
\* its cap
NextRetry ==
  \/ Connect
  \/ \E named \in BOOLEAN : ReconnectTimerFires(named)
  \/ \E s \in SocketIds : OnConnect(s)
  \/ \E s \in SocketIds, reason \in TransportReasons :
       OnDisconnect(s, reason, maxReconnectAttempts)
  \/ \E s \in SocketIds, retries \in BOOLEAN :
       OnConnectError(s, retries, maxReconnectAttempts)
  \/ Disconnect

SpecRetry == Init /\ [][NextRetry]_vars

\* ---------------------------------------------- on(), off() and dispatch
\* the callbacks the application passes to on('candles', cb)
Listeners == {"l1", "l2"}

\* a call of a callback by the event bus ("bus"), by the Socket.IO emitter
\* ("socket") or by the 'tick' handler ("tick"), and the exception it threw
Call(cb, how) == [kind |-> "call", name |-> cb, sock |-> 0, sym |-> how]
Throw(cb, how) == [kind |-> "throw", name |-> cb, sock |-> 0, sym |-> how]

Range(seq) == {seq[i] : i \in DOMAIN seq}

\* seq without the first of its elements equal to x
RECURSIVE RemoveFirst(_, _)
RemoveFirst(seq, x) ==
  IF seq = <<>> THEN <<>>
  ELSE IF Head(seq) = x THEN Tail(seq)
  ELSE <<Head(seq)>> \o RemoveFirst(Tail(seq), x)

\* The calls of a loop over cbs in which thrower throws.  With caught, every
\* call is inside try/catch and the loop goes on; without, the exception
\* leaves the loop.
RECURSIVE Invoke(_, _, _, _)
Invoke(cbs, thrower, how, caught) ==
  IF cbs = <<>> THEN <<>>
  ELSE IF Head(cbs) # thrower
       THEN <<Call(Head(cbs), how)>> \o Invoke(Tail(cbs), thrower, how, caught)
  ELSE IF caught
       THEN <<Call(Head(cbs), how), Throw(Head(cbs), how)>>
            \o Invoke(Tail(cbs), thrower, how, caught)
  ELSE <<Call(Head(cbs), how), Throw(Head(cbs), how)>>

\* on('candles', l), for a callback that is not registered
On(l) ==
  /\ l \notin Range(eventListeners)
  /\ eventListeners' = Append(eventListeners, l)
  /\ socketListeners' =
       IF socket # 0 /\ isConnected
       THEN Append(socketListeners,
                   [l |-> l, sock |-> socket, pos |-> Len(queries)])
       ELSE socketListeners
  /\ lastOp' = Op("on", socket, "", l)
  /\ out' = <<>>
  /\ UNCHANGED <<clientVars, queries, cacheVars, managerVars>>

\* the registrations of l on socket s
RegistrationsOf(l, s) ==
  SelectSeq(socketListeners, LAMBDA r : r.l = l /\ r.sock = s)

\* off('candles', l); l = "" is off('candles') without a callback, which
\* clears the set and leaves the socket alone
Off(l) ==
  /\ eventListeners' =
       IF l = "" THEN <<>> ELSE SelectSeq(eventListeners, LAMBDA x : x # l)
  /\ socketListeners' =
       IF socket # 0 /\ l # "" /\ RegistrationsOf(l, socket) # <<>>
       THEN RemoveFirst(socketListeners, Head(RegistrationsOf(l, socket)))
       ELSE socketListeners
  /\ lastOp' = Op("off", socket, "", l)
  /\ out' = <<>>
  /\ UNCHANGED <<clientVars, queries, cacheVars, managerVars>>

\* the callbacks that can throw when an event of this kind arrives on s
Throwers(kind, s) ==
  IF kind = "candles"
  THEN {""} \cup Range(eventListeners)
            \cup {r.l : r \in {x \in Range(socketListeners) : x.sock = s}}
  ELSE {""}

\* this.emit('candles', data), called by the forwarding listener
BusCallsUncaught(thrower) == Invoke(eventListeners, thrower, "bus", FALSE)
BusCalls(thrower) == Invoke(eventListeners, thrower, "bus", TRUE)

\* the callbacks on() registered on socket s, called by the Socket.IO
\* emitter after the forwarding listener, with no try/catch around them
SocketCalls(s, thrower) ==
  LET regs == SelectSeq(socketListeners, LAMBDA r : r.sock = s) IN
    Invoke([i \in DOMAIN regs |-> regs[i].l], thrower, "socket", FALSE)

\* The handlers of the queries are listeners of the socket as well, called
\* in the order of registration: the handler of query j runs unless a
\* callback registered on s before query j was issued threw.  The greatest
\* j whose handler is reached.
ReachedQueries(s, thrower) ==
  LET thrown == SelectSeq(socketListeners,
                          LAMBDA r : r.sock = s /\ r.l = thrower)
  IN IF thrown = <<>> THEN Len(queries) ELSE Head(thrown).pos

\* the callbacks the 'tick' handler calls for a tick of sym
TickCallbacksOfAll(sym) == UNION {subscribers[x] : x \in DOMAIN subscribers}
TickCallbacks(sym) ==
  IF sym \in DOMAIN subscribers THEN subscribers[sym] ELSE {}

\* a 'tick' event for sym arrives on socket s, and one of the callbacks, or
\* none, throws when it is called
OnTick(s, sym, thrower) ==
  /\ sockStatus[s] = "open"
  /\ out' = Invoke(SetToSeq(TickCallbacks(sym)), thrower, "tick", TRUE)
  /\ lastOp' = Op("tick", s, sym, thrower)
  /\ UNCHANGED <<clientVars, appVars>>

\* the subscriptions and the ticks, with the connection opened and closed
\* under them
NextTick ==
  \/ Connect
  \/ \E s \in SocketIds : OnConnect(s)
  \/ \E s \in SocketIds, reason \in TransportReasons :
       OnDisconnect(s, reason, MaxAttempts)
  \/ Disconnect
  \/ \E sym \in Symbols, cb \in Callbacks : Subscribe(sym, cb)
  \/ \E sym \in Symbols, cb \in Callbacks \cup {""} : Unsubscribe(sym, cb)
  \/ \E s \in SocketIds, sym \in Symbols, thrower \in Callbacks \cup {""} :
       OnTick(s, sym, thrower)

SpecTick == Init /\ [][NextTick]_vars

\* ============================================================ pull queries
\* The record of a query: kind (the event that answers it), sym and tf (its
\* key), future (the promise: "pending", "resolved", "rejected"), value (what
\* it settled with: "payload" of the response with key vsym, vtf; "empty";
\* "Timeout"; "NotConnected"), timer (its setTimeout is pending), and its
\* listeners: bus (in this.eventListeners), on and once (registered with
\* socket.on and socket.once on the socket sock, the one this.socket named
\* when the query was issued).
NumQueries == Len(queries)

\* if (!this.socket || !this.isConnected): the test negated
QueryConnectedUnchecked == TRUE
QueryConnected == socket # 0 /\ isConnected

\* resolve(...) and reject(...) of a promise that is settled do nothing
Settle(q, future, value, vsym, vtf) ==
  IF q.future = "pending"
  THEN [q EXCEPT !.future = future, !.value = value, !.vsym = vsym, !.vtf = vtf]
  ELSE q

\* a query whose handler is registered with once(event, handler):
\* this.on(event, onceHandler) puts onceHandler in eventListeners and, the
\* client being Connected, on the socket; socket.once puts it there again
OnceQuery(kind, sym) ==
  [NoQuery EXCEPT !.kind = kind, !.sym = sym, !.future = "pending",
                  !.timer = TRUE, !.bus = TRUE, !.on = TRUE, !.once = TRUE,
                  !.sock = socket]

\* getSymbols, getOrderBook, getAccountInfo
GetOnce(method, request, kind, sym) ==
  /\ NumQueries < MaxQueries
  /\ LET i == NumQueries + 1 IN
       IF ~QueryConnected THEN
         /\ queries' = Append(queries,
              [NoQuery EXCEPT !.kind = kind, !.sym = sym,
                              !.future = "rejected", !.value = "NotConnected"])
         /\ out' = <<>>
         /\ lastOp' = Op(method, i, sym, "not connected")
       ELSE
         /\ queries' = Append(queries, OnceQuery(kind, sym))
         /\ out' = <<Send(request, socket, sym)>>
         /\ lastOp' = Op(method, i, sym, "sent")

GetSymbols ==
  /\ GetOnce("getSymbols", "get_symbols", "symbols", "")
  /\ UNCHANGED <<clientVars, listenerVars, cacheVars, managerVars>>

GetOrderBook(sym) ==
  /\ GetOnce("getOrderBook", "get_order_book", "order_book", sym)
  /\ UNCHANGED <<clientVars, listenerVars, cacheVars, managerVars>>

GetAccountInfo ==
  /\ GetOnce("getAccountInfo", "get_account_info", "account_info", "")
  /\ UNCHANGED <<clientVars, listenerVars, cacheVars, managerVars>>

\* the query getCandles creates: not Connected, a promise resolved with [];
\* Connected, a pending one with its timeout and its handler, which is
\* registered with this.socket.on('candles', handler) only
CandlesQuery(sym, tf, count) ==
  IF ~QueryConnected
  THEN [NoQuery EXCEPT !.kind = "candles", !.sym = sym, !.tf = tf,
                       !.count = count,
                       !.future = "resolved", !.value = "empty"]
  ELSE [NoQuery EXCEPT !.kind = "candles", !.sym = sym, !.tf = tf,
                       !.count = count,
                       !.future = "pending", !.timer = TRUE,
                       !.on = TRUE, !.sock = socket]

\* the request getCandles emits
CandlesRequest(sym) ==
  IF ~QueryConnected THEN <<>> ELSE <<Send("get_candles", socket, sym)>>

\* getCandles called by the application directly, with the default count
GetCandles(sym, tf) ==
  /\ NumQueries < MaxQueries
  /\ queries' = Append(queries, CandlesQuery(sym, tf, DefaultCount))
  /\ out' = CandlesRequest(sym)
  /\ lastOp' = Op("getCandles", NumQueries + 1, sym,
                  IF QueryConnected THEN "sent" ELSE "not connected")
  /\ UNCHANGED <<clientVars, listenerVars, cacheVars, managerVars>>

\* The callbacks getCandlesWithCache chained on the promises that this step
\* settled: .then stores the candles, deletes the in-flight entry and arms
\* the timer that deletes the cache entry; .catch deletes the in-flight
\* entry only.
ThenCallbacks ==
  LET done == {k \in DOMAIN candlesPromises :
                 /\ queries[candlesPromises[k]].future = "pending"
                 /\ queries'[candlesPromises[k]].future # "pending"}
      stored == {k \in done : queries'[candlesPromises[k]].future = "resolved"}
  IN /\ candlesPromises' =
          [k \in DOMAIN candlesPromises \ done |-> candlesPromises[k]]
     /\ candlesCache' =
          [k \in DOMAIN candlesCache \cup stored |->
             IF k \in stored THEN candlesPromises[k] ELSE candlesCache[k]]
     /\ cacheTimers' = cacheTimers \o SetToSeq(stored)

\* the callback of the query's setTimeout without its body
TimedOutIgnored(q) == q
\* The query q, whose timer has fired, after the callback of its setTimeout:
\* getCandles removes its handler from this.socket and resolves with [];
\* the other queries reject with a Timeout error.
TimedOut(q) ==
  IF q.kind = "candles"
  THEN Settle([q EXCEPT !.on = IF socket = q.sock THEN FALSE ELSE q.on],
              "resolved", "empty", "", "")
  ELSE Settle(q, "rejected", "Timeout", "", "")

\* the query's setTimeout fires
QueryTimeout(i) ==
  /\ i \in DOMAIN queries
  /\ queries[i].timer
  /\ queries' = [queries EXCEPT
                   ![i] = TimedOut([queries[i] EXCEPT !.timer = FALSE])]
  /\ out' = <<>>
  /\ lastOp' = Op("timeout", i, queries[i].sym, queries[i].kind)
  /\ ThenCallbacks
  /\ UNCHANGED <<clientVars, listenerVars, managerVars>>

\* the test the handler of a query applies to the event data
HandlerMatchesAny(q, sym, tf) == TRUE
HandlerMatches(q, sym, tf) ==
  CASE q.kind = "candles" -> sym = q.sym /\ tf = q.tf
    [] q.kind = "order_book" -> sym = q.sym
    [] OTHER -> TRUE

\* The query q after the event kind with data (sym, tf) was received on
\* socket s.  Socket.IO calls the listeners the socket had when the event
\* arrived, in the order of their registration, and socket.off(event, fn)
\* removes the first registration of fn: first the forwarding listener of
\* setupSocketListeners, which calls the listeners of eventListeners, then
\* the listeners the queries registered on s.  Every call of onceHandler
\* runs this.off(event, onceHandler), which deletes it from eventListeners
\* and removes one registration from this.socket, then calls the handler.
Dispatched(q, kind, sym, tf, s) ==
  IF q.kind # kind THEN q
  ELSE IF kind = "candles" THEN
    IF q.on /\ q.sock = s /\ HandlerMatches(q, sym, tf)
    THEN Settle([q EXCEPT !.timer = FALSE,
                          !.on = IF socket = q.sock THEN FALSE ELSE q.on],
                "resolved", "payload", sym, tf)
    ELSE q
  ELSE IF ~(q.bus \/ (q.sock = s /\ (q.on \/ q.once))) THEN q
  ELSE
    LET r == [q EXCEPT
                !.bus = FALSE,
                !.on = IF socket = q.sock /\ (q.sock = s \/ q.bus)
                       THEN FALSE ELSE q.on,
                !.once = IF q.sock = s \/ (socket = q.sock /\ q.bus /\ ~q.on)
                         THEN FALSE ELSE q.once]
    IN IF HandlerMatches(q, sym, tf)
       THEN Settle([r EXCEPT !.timer = FALSE], "resolved", "payload", sym, tf)
       ELSE r

\* the query that was q before a response and is r after it, with the
\* request the response answers noted in it when the response resolved it
AnsweredBy(q, r, i) ==
  IF q.future = "pending" /\ r.future = "resolved"
  THEN [r EXCEPT !.from = i] ELSE r

\* the backend answers the request of query i: the event arrives on the
\* socket the request was emitted on, and one of the callbacks registered
\* with on('candles', cb), or none of them, throws when it is called
OnResponse(i) ==
  /\ i \in DOMAIN queries
  /\ queries[i].sock # 0
  /\ sockStatus[queries[i].sock] = "open"
  /\ LET q == queries[i] IN
       \E thrower \in Throwers(q.kind, q.sock) :
         /\ queries' = [j \in DOMAIN queries |->
                          IF q.kind = "candles" /\ j > ReachedQueries(q.sock, thrower)
                          THEN queries[j]
                          ELSE AnsweredBy(queries[j],
                                 Dispatched(queries[j], q.kind, q.sym, q.tf, q.sock),
                                 i)]
         /\ out' = <<Event(q.kind, q.sym)>>
                     \o (IF q.kind = "candles"
                         THEN BusCalls(thrower) \o SocketCalls(q.sock, thrower)
                         ELSE <<>>)
         /\ lastOp' = Op(q.kind, q.sock, q.sym, q.tf)
  /\ ThenCallbacks
  /\ UNCHANGED <<clientVars, listenerVars, managerVars>>

\* the queries, with the connection opened, closed and reopened under them
NextQuery ==
  \/ Connect
  \/ \E s \in SocketIds : OnConnect(s)
  \/ \E s \in SocketIds, reason \in TransportReasons :
       OnDisconnect(s, reason, MaxAttempts)
  \/ Disconnect
  \/ GetSymbols
  \/ \E sym \in Symbols, tf \in Timeframes : GetCandles(sym, tf)
  \/ \E sym \in Symbols : GetOrderBook(sym)
  \/ GetAccountInfo
  \/ \E i \in QueryIds : QueryTimeout(i)
  \/ \E i \in QueryIds : OnResponse(i)

SpecQuery == Init /\ [][NextQuery]_vars

\* the listeners of on(), the candle queries and the ticks of one symbol, on
\* a connection that stays open
NextListen ==
  \/ Connect
  \/ \E s \in SocketIds : OnConnect(s)
  \/ \E l \in Listeners : On(l)
  \/ \E l \in Listeners : Off(l)
  \/ \E sym \in Symbols, tf \in Timeframes : GetCandles(sym, tf)
  \/ \E i \in QueryIds : QueryTimeout(i)
  \/ \E i \in QueryIds : OnResponse(i)
  \/ \E cb \in Callbacks : Subscribe("A", cb)
  \/ \E s \in SocketIds, thrower \in Callbacks \cup {""} :
       OnTick(s, "A", thrower)

SpecListen == Init /\ [][NextListen]_vars

\* A 'candles' event with data (sym, tf) arrives on socket s, whatever
\* request the backend answers with it, and one of the callbacks registered
\* with on('candles', cb), or none of them, throws when it is called.
OnCandles(s, sym, tf, thrower) ==
  /\ sockStatus[s] = "open"
  /\ thrower \in Throwers("candles", s)
  /\ queries' = [j \in DOMAIN queries |->
                   IF j > ReachedQueries(s, thrower)
                   THEN queries[j]
                   ELSE Dispatched(queries[j], "candles", sym, tf, s)]
  /\ out' = <<Event("candles", sym)>>
              \o BusCalls(thrower) \o SocketCalls(s, thrower)
  /\ lastOp' = Op("candles", s, sym, tf)
  /\ ThenCallbacks
  /\ UNCHANGED <<clientVars, listenerVars, managerVars>>

\* the listener registry, with every event of the connection, and the
\* 'candles' events the backend sends
NextRegistry ==
  \/ Connect
  \/ \E named \in BOOLEAN : ReconnectTimerFires(named)
  \/ \E s \in SocketIds : OnConnect(s)
  \/ \E s \in SocketIds, reason \in TransportReasons :
       OnDisconnect(s, reason, MaxAttempts)
  \/ \E s \in SocketIds, retries \in BOOLEAN :
       OnConnectError(s, retries, MaxAttempts)
  \/ Disconnect
  \/ \E l \in Listeners : On(l)
  \/ \E l \in Listeners : Off(l)
  \/ \E s \in SocketIds, thrower \in Listeners \cup {""} :
       OnCandles(s, "A", "M5", thrower)

SpecRegistry == Init /\ [][NextRegistry]_vars

\* ==================================================== multiSymbolManager
\* multiSymbolManager.subscribe(sym, cb): the first callback of a symbol
\* registers the manager's own callback with the client
ManagerSubscribe(sym, cb) ==
  /\ IF sym \notin DOMAIN subscriptions THEN
       DoSubscribe("manager.subscribe", sym, ManagerCallback)
     ELSE
       /\ lastOp' = Op("manager.subscribe", 0, sym, "")
       /\ out' = <<>>
       /\ UNCHANGED clientVars
  /\ subscriptions' = Put(subscriptions, sym,
       (IF sym \in DOMAIN subscriptions THEN subscriptions[sym] ELSE {})
       \cup {cb})
  /\ UNCHANGED <<queries, listenerVars, cacheVars>>

\* multiSymbolManager.unsubscribe(sym, cb): when its last callback goes the
\* manager calls wsClient.unsubscribe(sym, undefined)
ManagerUnsubscribe(sym, cb) ==
  /\ IF sym \in DOMAIN subscriptions /\ subscriptions[sym] \ {cb} = {} THEN
       /\ subscriptions' =
            [x \in DOMAIN subscriptions \ {sym} |-> subscriptions[x]]
       /\ DoUnsubscribe("manager.unsubscribe", sym, "")
     ELSE
       /\ subscriptions' =
            IF sym \in DOMAIN subscriptions
            THEN [subscriptions EXCEPT ![sym] = @ \ {cb}]
            ELSE subscriptions
       /\ lastOp' = Op("manager.unsubscribe", 0, sym, "kept")
       /\ out' = <<>>
       /\ UNCHANGED clientVars
  /\ UNCHANGED <<queries, listenerVars, cacheVars>>

\* multiSymbolManager.unsubscribeAll(sym)
ManagerUnsubscribeAll(sym) ==
  /\ subscriptions' = [x \in DOMAIN subscriptions \ {sym} |-> subscriptions[x]]
  /\ DoUnsubscribe("manager.unsubscribeAll", sym, "")
  /\ UNCHANGED <<queries, listenerVars, cacheVars>>

\* the manager and the consumers that subscribe directly, on one client
\* that is connected and disconnected by the application
NextManager ==
  \/ Connect
  \/ \E s \in SocketIds : OnConnect(s)
  \/ Disconnect
  \/ \E sym \in Symbols, cb \in Callbacks : Subscribe(sym, cb)
  \/ \E sym \in Symbols, cb \in Callbacks : Unsubscribe(sym, cb)
  \/ \E sym \in Symbols, cb \in Callbacks : ManagerSubscribe(sym, cb)
  \/ \E sym \in Symbols, cb \in Callbacks : ManagerUnsubscribe(sym, cb)
  \/ \E sym \in Symbols : ManagerUnsubscribeAll(sym)
  \/ \E s \in SocketIds, sym \in Symbols : OnTick(s, sym, "")

SpecManager == Init /\ [][NextManager]_vars

\* ========================================================== candle cache
\* getCandlesWithCache of the market-data hook.  The hook passes the default
\* count; a key is symbol_timeframe_count.
CacheKey(sym, tf, count) == <<sym, tf, count>>

\* candlesPromises.has(cacheKey)
InFlightNever(key) == FALSE
InFlight(key) == key \in DOMAIN candlesPromises

\* candlesCache.has(cacheKey)
CachedNever(key) == FALSE
Cached(key) == key \in DOMAIN candlesCache

\* getCandlesWithCache(sym, tf): the promise in flight for the key, or the
\* cached candles, or a new getCandles whose promise is stored in
\* candlesPromises.  lastOp names the query whose candles the call returns.
\* When the client is not Connected getCandles returns a resolved promise,
\* and the .then callback runs before any other call or event.
GetCandlesWithCache(sym, tf, count) ==
  LET key == CacheKey(sym, tf, count) IN
    /\ IF InFlight(key) THEN
         /\ lastOp' = Op("getCandlesWithCache", candlesPromises[key], sym, tf)
         /\ out' = <<>>
         /\ UNCHANGED <<queries, cacheVars>>
       ELSE IF Cached(key) THEN
         /\ lastOp' = Op("getCandlesWithCache", candlesCache[key], sym, tf)
         /\ out' = <<>>
         /\ UNCHANGED <<queries, cacheVars>>
       ELSE
         /\ NumQueries < MaxQueries
         /\ queries' = Append(queries, CandlesQuery(sym, tf, count))
         /\ out' = CandlesRequest(sym)
         /\ lastOp' = Op("getCandlesWithCache", NumQueries + 1, sym, tf)
         /\ IF QueryConnected THEN
              /\ candlesPromises' = Put(candlesPromises, key, NumQueries + 1)
              /\ UNCHANGED <<candlesCache, cacheTimers>>
            ELSE
              /\ candlesCache' = Put(candlesCache, key, NumQueries + 1)
              /\ cacheTimers' = Append(cacheTimers, key)
              /\ UNCHANGED candlesPromises
    /\ UNCHANGED <<clientVars, listenerVars, managerVars>>

\* the callback of the oldest setTimeout(..., 30000) of the cache: timers of
\* one delay fire in the order they were armed
CacheExpires ==
  /\ cacheTimers # <<>>
  /\ LET key == Head(cacheTimers) IN
       /\ candlesCache' = [k \in DOMAIN candlesCache \ {key} |-> candlesCache[k]]
       /\ lastOp' = Op("expire", 0, key[1], key[2])
  /\ cacheTimers' = Tail(cacheTimers)
  /\ out' = <<>>
  /\ UNCHANGED <<clientVars, listenerVars, managerVars, queries, candlesPromises>>

\* the cache, with the connection opened and closed under it
NextCache ==
  \/ Connect
  \/ \E s \in SocketIds : OnConnect(s)
  \/ \E s \in SocketIds, reason \in TransportReasons :
       OnDisconnect(s, reason, MaxAttempts)
  \/ Disconnect
  \/ \E sym \in Symbols, tf \in Timeframes :
       GetCandlesWithCache(sym, tf, DefaultCount)
  \/ \E i \in QueryIds : QueryTimeout(i)
  \/ \E i \in QueryIds : OnResponse(i)
  \/ CacheExpires

SpecCache == Init /\ [][NextCache]_vars

\* fetches of one symbol and timeframe with different counts, through the
\* cache, on a connection that stays open
NextCount ==
  \/ Connect
  \/ \E s \in SocketIds : OnConnect(s)
  \/ \E sym \in Symbols, count \in Counts :
       GetCandlesWithCache(sym, "M5", count)
  \/ \E i \in QueryIds : QueryTimeout(i)
  \/ \E i \in QueryIds : OnResponse(i)
  \/ CacheExpires

SpecCount == Init /\ [][NextCount]_vars

\* The four queries, the candles through the cache, with the connection
\* closed, reopened and disconnected under them.  A timer armed with
\* setTimeout fires: the timeout of every query is weakly fair.  Nothing
\* else is: a response may never come.
NextSettle ==
  \/ Connect
  \/ \E s \in SocketIds : OnConnect(s)
  \/ \E s \in SocketIds, reason \in TransportReasons :
       OnDisconnect(s, reason, MaxAttempts)
  \/ Disconnect
  \/ GetSymbols
  \/ GetOrderBook("A")
  \/ GetAccountInfo
  \/ GetCandlesWithCache("A", "M5", DefaultCount)
  \/ \E i \in QueryIds : QueryTimeout(i)
  \/ \E i \in QueryIds : OnResponse(i)
  \/ CacheExpires

SpecSettle ==
  /\ Init
  /\ [][NextSettle]_vars
  /\ \A i \in QueryIds : WF_vars(QueryTimeout(i))

TypeOK ==
  /\ socket \in 0..MaxSockets
  /\ sockStatus \in [SocketIds -> {"none", "opening", "open", "closed"}]
  /\ DOMAIN subscribers \subseteq Symbols
  /\ \A sym \in DOMAIN subscribers :
       /\ subscribers[sym] \subseteq Callbacks \cup {ManagerCallback}
       /\ subscribers[sym] # {}
  /\ DOMAIN subscriptions \subseteq Symbols
  /\ \A sym \in DOMAIN subscriptions :
       subscriptions[sym] \subseteq Callbacks /\ subscriptions[sym] # {}
  /\ isConnecting \in BOOLEAN /\ isConnected \in BOOLEAN
  /\ pendingSubscriptions \subseteq Symbols
  /\ reconnectAttempts \in 0..maxReconnectAttempts
  /\ reconnectTimer \in {"null", "armed", "fired"}
  /\ timers \in 0..maxReconnectAttempts
  /\ reconnectTimer = "armed" => timers > 0
  /\ pingInterval \in BOOLEAN
  /\ Len(queries) <= MaxQueries
  /\ Range(eventListeners) \subseteq Listeners
  /\ \A i \in DOMAIN socketListeners :
       /\ socketListeners[i].l \in Listeners
       /\ socketListeners[i].sock \in SocketIds
       /\ socketListeners[i].pos \in 0..MaxQueries
  /\ \A k \in DOMAIN candlesPromises : candlesPromises[k] \in DOMAIN queries
  /\ \A k \in DOMAIN candlesCache : candlesCache[k] \in DOMAIN queries
  /\ \A i \in DOMAIN queries :
       /\ queries[i].kind \in ResponseEvents
       /\ queries[i].future \in {"pending", "resolved", "rejected"}
       /\ queries[i].sock \in 0..MaxSockets
       /\ queries[i].timer => queries[i].future = "pending"

\* ================================================================ claims
\* the 'subscribe' requests for sym among the emissions o
SubscribeSends(o, sym) ==
  {i \in DOMAIN o : o[i].kind = "send" /\ o[i].name = "subscribe"
                    /\ o[i].sym = sym}

HasEvent(o, name, code) == \E i \in DOMAIN o : o[i] = Event(name, code)

\* C1 (subscription multiplexing): on one connection, while a symbol keeps
\* at least one callback, no second 'subscribe' request is emitted for it:
\* no step emits 'subscribe' for a symbol that has callbacks before the step
\* and already had a 'subscribe' emitted on this.socket since its last close.
C1_OneSubscribePerConnection ==
  [][\A sym \in Symbols :
       (sym \in DOMAIN subscribers /\ sym \in emittedSubs /\ socket' = socket)
         => SubscribeSends(out', sym) = {}]_vars

\* C2 (reconnect replay): at the first transport open after a transport
\* close, every symbol that had callbacks at the close and kept them gets
\* exactly one 'subscribe' emission, and no symbol gets two.
C2_ReplayExactlyOnce ==
  [][lastOp'.op = "open" =>
       /\ \A sym \in closedWith : Cardinality(SubscribeSends(out', sym)) = 1
       /\ \A sym \in Symbols : Cardinality(SubscribeSends(out', sym)) <= 1]_vars

\* C3 (subscribe intent is never lost): every symbol with a registered
\* callback is in pendingSubscriptions or has had a 'subscribe' request
\* emitted on the current connection.
C3_IntentNeverLost ==
  \A sym \in DOMAIN subscribers :
    sym \in pendingSubscriptions \/ sym \in emittedSubs

\* C4 (transport failures keep the subscriber state): a transport open,
\* close or connect error leaves the symbol-to-callbacks map unchanged, and a
\* step that removes a registered callback is disconnect() or unsubscribe().
C4_TransportKeepsSubscribers ==
  [][/\ lastOp'.op \in {"open", "close", "error"} => subscribers' = subscribers
     /\ (\E sym \in DOMAIN subscribers :
           sym \notin DOMAIN subscribers'
           \/ ~(subscribers[sym] \subseteq subscribers'[sym]))
          => lastOp'.op \in {"disconnect", "unsubscribe"}]_vars

\* a transport open that has replayed both symbols after a close: their
\* callbacks have survived the close and the reopen
C4_Witness ==
  /\ lastOp.op = "open"
  /\ DOMAIN subscribers = Symbols
  /\ \A i \in 1..2 : out[i].kind = "send" /\ out[i].name = "subscribe"
  /\ subscribers["A"] = Callbacks

\* C5 (connect() during an attempt): a connect() called while isConnecting
\* opens no transport and returns the pending future of the attempt in
\* progress, the one the next transport open or error settles.
C5_ConnectWhileConnecting ==
  [][(lastOp'.op \in {"connect", "timer"} /\ isConnecting) =>
       /\ sockStatus' = sockStatus
       /\ socket' = socket
       /\ lastOp'.arg = "pending"
       /\ lastOp'.sock = connectionResolve
       /\ connectionResolve' = connectionResolve
       /\ connectionPromise' = connectionPromise
       /\ isConnecting']_vars

\* a connect() has just returned the pending future of the running attempt
C5_Witness ==
  /\ lastOp.op = "connect"
  /\ lastOp.arg = "pending"
  /\ isConnecting
  /\ lastOp.sock = connectionResolve
  /\ sockStatus[socket] = "opening"

\* C6 (connect() while Connected): the call returns true and changes no
\* field of the client and opens no transport; the call made by the
\* reconnection timer differs only in that its own timer has fired.
C6_ConnectWhileConnected ==
  [][(lastOp'.op \in {"connect", "timer"} /\ isConnected) =>
       /\ lastOp'.arg = "true"
       /\ UNCHANGED <<socket, sockStatus, subscribers, isConnecting,
                      isConnected, pendingSubscriptions, reconnectAttempts,
                      pingInterval, connectionPromise, connectionResolve>>
       /\ lastOp'.op = "connect" => UNCHANGED <<reconnectTimer, timers>>]_vars

\* a connect() has just returned true on a connected client with an open
\* transport and a subscription
C6_Witness ==
  /\ lastOp.op = "connect"
  /\ lastOp.arg = "true"
  /\ isConnected
  /\ socket # 0 /\ sockStatus[socket] = "open"
  /\ subscribers # EmptyMap

\* C7 (single transport): at most one transport is open or retrying with the
\* client's handlers attached.
C7_SingleTransport == Cardinality(LiveSockets) <= 1

\* C8 (outcome of connect()): a transport open settles the future of the
\* connect() that created that transport with true, a connect error settles
\* it with false, and after a connect error the client is neither Connected
\* nor Connecting and a reconnection timer is armed.
C8_ConnectOutcome ==
  [][/\ lastOp'.op \in {"open", "error"} =>
          \A i \in DOMAIN out' :
            out'[i].kind = "resolve" =>
              /\ out'[i].sock = lastOp'.sock
              /\ out'[i].name = (IF lastOp'.op = "open" THEN "true" ELSE "false")
     /\ lastOp'.op = "error" =>
          ~isConnected' /\ ~isConnecting' /\ reconnectTimer' = "armed"]_vars

\* C9 (transport open): after the open handler the client is Connected, the
\* attempt counter is 0, the heartbeat runs, pendingSubscriptions is empty,
\* every symbol that was pending has had exactly one 'subscribe' emitted, and
\* 'connected' has been emitted to the listeners.
C9_OpenHandler ==
  [][lastOp'.op = "open" =>
       /\ isConnected' /\ ~isConnecting'
       /\ reconnectAttempts' = 0
       /\ pingInterval'
       /\ pendingSubscriptions' = {}
       /\ \A sym \in pendingSubscriptions :
            Cardinality(SubscribeSends(out', sym)) = 1
       /\ HasEvent(out', "connected", "")]_vars

\* C10 (reconnection after a close): every transport close that is not the
\* result of disconnect() arms a reconnection timer or emits the max-attempts
\* error, whatever its reason.
C10_CloseSchedulesReconnect ==
  [][lastOp'.op = "close" =>
       \/ reconnectTimer' = "armed"
       \/ HasEvent(out', "error", "MAX_RECONNECT_ATTEMPTS")]_vars

\* the delays of the reconnection timers armed in the emissions o
ArmedDelays(o) == {o[i].sock : i \in {j \in DOMAIN o : o[j].kind = "timer"}}

\* C11 (disconnect): when disconnect() returns the client is not Connected,
\* the heartbeat is stopped, no reconnection timer is pending, the transport
\* is closed and released, the subscriber map and pendingSubscriptions are
\* empty and the attempt counter is 0.
C11_AfterDisconnect ==
  [][lastOp'.op = "disconnect" =>
       /\ ~isConnected'
       /\ ~pingInterval'
       /\ reconnectTimer' = "null" /\ timers' = 0
       /\ socket' = 0
       /\ socket # 0 => sockStatus'[socket] = "closed"
       /\ subscribers' = EmptyMap
       /\ pendingSubscriptions' = {}
       /\ reconnectAttempts' = 0]_vars

\* C12 (no reconnect after disconnect): after disconnect() no connection
\* attempt is started by a reconnection timer until connect() is called
\* again; in particular the step that follows disconnect() is not a timer
\* callback that opens a transport.
C12_NoReconnectAfterDisconnect ==
  [][lastOp.op = "disconnect" =>
       ~(lastOp'.op = "timer" /\ lastOp'.arg = "new")]_vars

\* C13 (attempt counter): the counter starts at 0 and stays within
\* 0..maxReconnectAttempts; every reconnection timer that is armed increments
\* it by one and it decreases only by a reset to 0, so that at most
\* maxReconnectAttempts timers are armed between two resets.
C13_AttemptsBounded ==
  /\ reconnectAttempts = 0
  /\ [][/\ reconnectAttempts' \in 0..maxReconnectAttempts
        /\ ArmedDelays(out') # {} => reconnectAttempts' = reconnectAttempts + 1
        /\ reconnectAttempts' < reconnectAttempts => reconnectAttempts' = 0]_vars

C13_Witness ==
  /\ reconnectAttempts = maxReconnectAttempts
  /\ lastOp.op = "error"
  /\ ArmedDelays(out) # {}

\* C14 (attempt cap): once the max-attempts error has been emitted, no
\* second max-attempts error is emitted and no reconnection timer is armed
\* until the counter has been reset.
C14_MaxErrorOnce ==
  /\ [](maxErrors <= 1)
  /\ [][maxErrors >= 1 /\ maxErrors' >= 1 => ArmedDelays(out') = {}]_vars

\* C15 (manual connect after the cap): after the max-attempts error a
\* connect() that starts a new attempt resets the attempt counter.
C15_ManualConnectResets ==
  [][maxErrors >= 1 /\ lastOp'.op = "connect" /\ lastOp'.arg = "new" =>
       reconnectAttempts' = 0]_vars

\* C16 (backoff growth): the delay armed for the n-th consecutive attempt,
\* n the counter after its increment, is 5000 * (3/2)^(n-1) ms, and it is not
\* less than the delay of attempt n-1 (delays in units of 1/DelayScale ms,
\* DelayScale = 2^(maxReconnectAttempts-1)).
C16_BackoffGrowth ==
  [][\A d \in ArmedDelays(out') :
       LET n == reconnectAttempts' IN
         /\ n \in 1..maxReconnectAttempts
         /\ d = 5000 * 3^(n - 1) * 2^(maxReconnectAttempts - n)
         /\ n > 1 => d >= 5000 * 3^(n - 2) * 2^(maxReconnectAttempts - n + 1)]_vars

\* the third attempt is armed with 11250 ms
C16_Witness ==
  /\ reconnectAttempts = 3
  /\ ArmedDelays(out) = {11250 * DelayScale}

\* the query q has a listener registered
Registered(q) == q.bus \/ q.on \/ q.once

QueryMethods == {"getSymbols", "getCandles", "getOrderBook", "getAccountInfo"}

\* a promise that is settled keeps its outcome
SettledOnce(q, r) ==
  q.future \in {"resolved", "rejected"} =>
    /\ r.future = q.future /\ r.value = q.value
    /\ r.vsym = q.vsym /\ r.vtf = q.vtf

\* the step with lastOp' is an event of the kind of q
ByResponse(q, r) ==
  /\ lastOp'.op = q.kind /\ q.timer
  /\ r.value = "payload" /\ r.vsym = q.sym /\ r.vtf = q.tf

C18_OtherKeyKeepsListener ==
  [][\A i \in DOMAIN queries :
       LET q == queries[i]  r == queries'[i] IN
         (/\ q.kind \in {"order_book", "candles"}
          /\ q.future = "pending" /\ Registered(q)
          /\ lastOp'.op = q.kind
          /\ lastOp'.sym # q.sym \/ lastOp'.arg # q.tf)
         => r.future = "pending" /\ Registered(r)]_vars

\* C19 (timeout deregisters): when the timer of a query fires, no listener
\* of that query stays registered.
C19_TimeoutDeregisters ==
  [][lastOp'.op = "timeout" => ~Registered(queries'[lastOp'.sock])]_vars

C27_HeartbeatIffConnected ==
  /\ [](pingInterval <=> isConnected)
  /\ [][(\E i \in DOMAIN out' : out'[i].kind = "send" /\ out'[i].name = "ping")
          => isConnected]_vars

\* C28 (order of the open handler): on an open, the 'connected' event is
\* emitted to the listeners before every replayed 'subscribe' request.
C28_ConnectedBeforeReplay ==
  [][lastOp'.op = "open" =>
       \A i, j \in DOMAIN out' :
         (out'[i].kind = "send" /\ out'[i].name = "subscribe"
          /\ out'[j] = Event("connected", "")) => j < i]_vars

\* C29 (one connection state): isConnected and isConnecting are never both
\* true.
C29_OneState == ~(isConnected /\ isConnecting)

\* a transport that is not this.socket opened while connect() was not in
\* progress
C29_Witness ==
  /\ lastOp.op = "open" /\ lastOp.sock # socket
  /\ isConnected /\ connectionResolve = 0 /\ NumSockets = MaxSockets

\* C30 (state machine): Connected is entered only from Connecting and by a
\* transport open; Connecting is entered only by connect() or by the
\* reconnection timer, from a state that is neither Connected nor
\* Connecting; Connected is left only by a transport close or disconnect().
C30_StateMachine ==
  [][/\ ~isConnected /\ isConnected' => isConnecting /\ lastOp'.op = "open"
     /\ ~isConnecting /\ isConnecting' =>
          ~isConnected /\ lastOp'.op \in {"connect", "timer"}
     /\ isConnected /\ ~isConnected' =>
          lastOp'.op \in {"close", "disconnect"}]_vars

\* the callbacks called among the emissions o, and the positions of the calls
CallsIn(o) == {i \in DOMAIN o : o[i].kind = "call"}
Called(o) == {o[i].name : i \in CallsIn(o)}
UnsubscribeSends(o, sym) ==
  {i \in DOMAIN o : o[i].kind = "send" /\ o[i].name = "unsubscribe"
                     /\ o[i].sym = sym}

\* what unsubscribe(sym, ...) does to the registry, whatever the connection:
\* the other symbols keep their callbacks, a call with a callback removes at
\* most that one callback and deletes the Subscription only when no
\* callback remains, a call without a callback deletes it
UnsubscribeRemoves ==
  LET sym == lastOp'.sym
      gone == sym \notin DOMAIN subscribers'
      left == IF gone THEN {} ELSE subscribers'[sym]
  IN /\ \A x \in DOMAIN subscribers \ {sym} :
          x \in DOMAIN subscribers' /\ subscribers'[x] = subscribers[x]
     /\ left \subseteq subscribers[sym]
     /\ lastOp'.arg = "one" => Cardinality(subscribers[sym] \ left) <= 1
     /\ lastOp'.arg = "all" => gone
     /\ Len(out') = Cardinality(UnsubscribeSends(out', sym))
     /\ Len(out') <= 1

C25_TickDelivery ==
  [][lastOp'.op = "tick" =>
       LET regs == IF lastOp'.sym \in DOMAIN subscribers
                   THEN subscribers[lastOp'.sym] ELSE {}
       IN /\ Called(out') = regs
          /\ Cardinality(CallsIn(out')) = Cardinality(regs)
          /\ \A i \in CallsIn(out') : out'[i].sym = "tick"]_vars

\* a tick of A called cb2 alone: cb1 is registered for B only
C25_Witness ==
  /\ lastOp.op = "tick" /\ lastOp.sym = "A"
  /\ "A" \in DOMAIN subscribers /\ subscribers["A"] = {"cb2"}
  /\ "B" \in DOMAIN subscribers /\ subscribers["B"] = {"cb1"}
  /\ Called(out) = {"cb2"}

\* C26 (fault isolation): when a tick callback or a listener of on() throws
\* during a dispatch, every other callback of the symbol and every other
\* listener of the event is still called for it (the handler of a pending
\* query that the event answers settles its promise when it is called), and
\* the connection, the timers and the registries are as they were.
C26_FaultIsolation ==
  [][(\E i \in DOMAIN out' : out'[i].kind = "throw") =>
       /\ lastOp'.op = "tick" =>
            /\ TickCallbacks(lastOp'.sym) \subseteq Called(out')
            /\ UNCHANGED <<clientVars, appVars>>
       /\ lastOp'.op = "candles" =>
            /\ Range(eventListeners) \subseteq Called(out')
            /\ \A j \in DOMAIN queries :
                 (/\ queries[j].kind = "candles" /\ queries[j].on
                  /\ queries[j].sock = lastOp'.sock
                  /\ queries[j].future = "pending"
                  /\ HandlerMatches(queries[j], lastOp'.sym, lastOp'.arg))
                 => queries'[j].future = "resolved"
            /\ UNCHANGED <<clientVars, listenerVars, managerVars>>]_vars

\* the key of the getCandlesWithCache call that lastOp records
CallKey(op) == CacheKey(op.sym, op.arg, DefaultCount)
\* the 'get_candles' requests among the emissions o
CandlesSends(o) ==
  {i \in DOMAIN o : o[i].kind = "send" /\ o[i].name = "get_candles"}
\* the queries in flight for the candles of (sym, tf)
PendingFor(sym, tf) ==
  {i \in DOMAIN queries : /\ queries[i].kind = "candles"
                           /\ queries[i].future = "pending"
                           /\ queries[i].sym = sym /\ queries[i].tf = tf}

\* C21 (dedup, P2): a getCandlesWithCache call made while Connected for a
\* key that is neither cached nor in flight emits exactly one 'get_candles'
\* and puts its future in flight; every call for the key made before that
\* future settles emits nothing and returns the same future; at most one
\* future is in flight per key at any time.
C21_CandleDedup ==
  /\ [](\A sym \in Symbols, tf \in Timeframes :
          /\ Cardinality(PendingFor(sym, tf)) <= 1
          /\ \A i \in PendingFor(sym, tf) :
               /\ InFlight(CacheKey(sym, tf, DefaultCount))
               /\ candlesPromises[CacheKey(sym, tf, DefaultCount)] = i)
  /\ [][lastOp'.op = "getCandlesWithCache" =>
          LET key == CallKey(lastOp') IN
            /\ (key \in DOMAIN candlesPromises) =>
                 /\ out' = <<>>
                 /\ lastOp'.sock = candlesPromises[key]
                 /\ UNCHANGED <<queries, cacheVars>>
            /\ (/\ key \notin DOMAIN candlesPromises
                /\ key \notin DOMAIN candlesCache
                /\ socket # 0 /\ isConnected) =>
                 /\ out' = <<Send("get_candles", socket, lastOp'.sym)>>
                 /\ key \in DOMAIN candlesPromises'
                 /\ candlesPromises'[key] = lastOp'.sock
                 /\ lastOp'.sock \notin DOMAIN queries
                 /\ queries'[lastOp'.sock].future = "pending"]_vars

\* a call joined the fetch in flight for its key: it got the future of that
\* fetch, still pending on an open connection, and emitted nothing
C21_Witness ==
  /\ lastOp.op = "getCandlesWithCache"
  /\ CallKey(lastOp) \in DOMAIN candlesPromises
  /\ candlesPromises[CallKey(lastOp)] = lastOp.sock
  /\ queries[lastOp.sock].future = "pending"
  /\ isConnected /\ socket # 0
  /\ out = <<>>

\* every cache entry has exactly one expiry timer pending, and every pending
\* expiry timer has its entry: an entry lives from the resolution of its
\* fetch to the firing of the timer armed at that resolution
OneTimerPerEntry ==
  /\ \A k \in DOMAIN candlesCache :
       Cardinality({n \in DOMAIN cacheTimers : cacheTimers[n] = k}) = 1
  /\ Range(cacheTimers) \subseteq DOMAIN candlesCache

\* a call for a key that is cached, and not in flight, returns the cached
\* candles and emits nothing; the callback of the expiry timer deletes the
\* entry
ServedUntilExpiry ==
  /\ (/\ lastOp'.op = "getCandlesWithCache"
      /\ CallKey(lastOp') \in DOMAIN candlesCache
      /\ CallKey(lastOp') \notin DOMAIN candlesPromises) =>
       /\ out' = <<>>
       /\ lastOp'.sock = candlesCache[CallKey(lastOp')]
       /\ UNCHANGED <<queries, cacheVars>>
  /\ lastOp'.op = "expire" => CallKey(lastOp') \notin DOMAIN candlesCache'

C23_FailureNotCached ==
  /\ \A k \in DOMAIN candlesCache : queries[candlesCache[k]].value = "payload"
  /\ \A k \in DOMAIN candlesPromises :
       queries[candlesPromises[k]].future = "pending"

\* C31 (pending only while not Connected): whenever the client is Connected
\* pendingSubscriptions is empty.
C31_ConnectedNothingPending == isConnected => pendingSubscriptions = {}

\* C32 (flush without a transport): when the open handler cannot send the
\* 'subscribe' of a pending symbol, the symbol is still pending after it.
C32_UnsentStaysPending ==
  [][(lastOp'.op = "open" /\ Queues(socket, TRUE)) =>
       pendingSubscriptions \subseteq pendingSubscriptions']_vars

\* C35 (pending symbols have callbacks): every pending symbol has a
\* registered callback, and the open handler emits 'subscribe' only for
\* symbols that have one.
C35_PendingHaveCallbacks ==
  /\ [](pendingSubscriptions \subseteq DOMAIN subscribers)
  /\ [][lastOp'.op = "open" =>
          \A sym \in Symbols :
            SubscribeSends(out', sym) # {} => sym \in DOMAIN subscribers]_vars

\* C36 (one reconnection timer): at most one reconnection timer is pending,
\* and it is the one this.reconnectTimer names, which clearTimers cancels.
C36_OneReconnectTimer ==
  /\ timers <= 1
  /\ timers = 1 => reconnectTimer = "armed"

\* C38 (disconnect while Connecting): disconnect() called during a
\* connection attempt leaves the client neither Connected nor Connecting,
\* and the connect() that follows it opens a new transport.
C38_DisconnectWhileConnecting ==
  [][/\ lastOp'.op = "disconnect" => ~isConnecting' /\ ~isConnected'
     /\ (lastOp.op = "disconnect" /\ lastOp'.op = "connect") =>
          lastOp'.arg = "new"]_vars

\* the handlers and methods that change the connection
ConnectionOps == {"connect", "timer", "open", "close", "error", "disconnect"}
\* the number of calls of callback cb among the emissions o
TimesCalled(o, cb) == Cardinality({i \in CallsIn(o) : o[i].name = cb})

C37_DeliveredOnce ==
  [][lastOp'.op = "candles" =>
       \A l \in Range(eventListeners) : TimesCalled(out', l) = 1]_vars

\* C40 (consumers do not cancel each other): when multiSymbolManager
\* removes its last callback of a symbol, or unsubscribeAll is called, the
\* callbacks other consumers registered for the symbol directly stay
\* registered, and no 'unsubscribe' is emitted while they remain.
C40_ManagerKeepsOthers ==
  [][lastOp'.op \in {"manager.unsubscribe", "manager.unsubscribeAll"} =>
       LET sym == lastOp'.sym
           others == IF sym \in DOMAIN subscribers
                     THEN subscribers[sym] \ {ManagerCallback} ELSE {}
       IN others # {} =>
            /\ sym \in DOMAIN subscribers'
            /\ others \subseteq subscribers'[sym]
            /\ UnsubscribeSends(out', sym) = {}]_vars

\* C39 (own response): a candle fetch that a response resolved was resolved
\* by the response to a request with its own count, and the candles cached
\* under a key are those returned for the count of the key.
C39_OwnResponse ==
  /\ \A i \in DOMAIN queries :
       (queries[i].kind = "candles" /\ queries[i].value = "payload") =>
         queries[queries[i].from].count = queries[i].count
  /\ \A k \in DOMAIN candlesCache :
       queries[candlesCache[k]].value = "payload" =>
         queries[queries[candlesCache[k]].from].count = k[3]

PendingQuery(i) == i \in DOMAIN queries /\ queries[i].future = "pending"
SettledQuery(i) == i \in DOMAIN queries /\ queries[i].future # "pending"

\* C34 (queries are bounded by their timeout): every query that is pending
\* eventually settles, whatever the connection does meanwhile, and every
\* in-flight entry of the candle cache is eventually removed.
C34_QueriesSettle ==
  /\ \A i \in QueryIds : PendingQuery(i) ~> SettledQuery(i)
  /\ \A tf \in Timeframes :
       (CacheKey("A", tf, DefaultCount) \in DOMAIN candlesPromises)
         ~> (CacheKey("A", tf, DefaultCount) \notin DOMAIN candlesPromises)

\* a query of each kind of timeout was settled by its timer after
\* disconnect() had closed the socket it was sent on, and the in-flight
\* entry of the fetch is gone
C34_Witness ==
  /\ lastOp.op = "timeout"
  /\ candlesPromises = EmptyMap
  /\ \E i, j \in DOMAIN queries :
       /\ queries[i].kind = "candles" /\ queries[i].value = "empty"
       /\ queries[j].kind # "candles" /\ queries[j].value = "Timeout"
       /\ queries[i].sock # 0 /\ sockStatus[queries[i].sock] = "closed"
       /\ queries[j].sock # 0 /\ sockStatus[queries[j].sock] = "closed"
====
